---- MODULE Spec2Model ----
(***************************************************************************)
(* A model of tools/generate_qr.py: the content classifier and normalizer, *)
(* the filename helpers, the PDF writer's temporary file, and main().      *)
(*                                                                         *)
(* A Python str is a sequence of characters; a character is a one-letter   *)
(* string, except the two non-ASCII characters the model carries, which    *)
(* are named by code point: "U+0130" (LATIN CAPITAL LETTER I WITH DOT      *)
(* ABOVE) and "U+0307" (COMBINING DOT ABOVE).                              *)
(***************************************************************************)
EXTENDS Integers, Sequences, FiniteSets, TLC

\* ------------------------------------------------------------------------
\* Characters and the str methods the program uses
\* ------------------------------------------------------------------------

Lowers == <<"a","b","c","d","e","f","g","h","i","j","k","l","m",
            "n","o","p","q","r","s","t","u","v","w","x","y","z">>

Uppers == <<"A","B","C","D","E","F","G","H","I","J","K","L","M",
            "N","O","P","Q","R","S","T","U","V","W","X","Y","Z">>

Digits == {"0","1","2","3","4","5","6","7","8","9"}

Range(s) == {s[i] : i \in 1..Len(s)}

IndexOf(s, ch) == CHOOSE i \in 1..Len(s) : s[i] = ch

\* str.isspace() / the regex class \s
IsSpace(ch) == ch \in {" ", "\t", "\n"}

\* the regex class \d
IsDigit(ch) == ch \in Digits

\* the regex class \w on str patterns: alphanumerics and the underscore
IsWord(ch) == \/ ch \in Range(Lowers) \cup Range(Uppers) \cup Digits
              \/ ch = "_"
              \/ ch = "U+0130"

\* str.lower() of one character (the full mapping: U+0130 becomes two)
LowerCh(ch) == IF ch \in Range(Uppers) THEN <<Lowers[IndexOf(Uppers, ch)]>>
               ELSE IF ch = "U+0130" THEN <<"i", "U+0307">>
               ELSE <<ch>>

\* str.upper() of one character
UpperCh(ch) == IF ch \in Range(Lowers) THEN <<Uppers[IndexOf(Lowers, ch)]>>
               ELSE <<ch>>

\* the one-to-one lower-casing re.IGNORECASE compares with
SimpleLowerCh(ch) == IF ch \in Range(Uppers) THEN Lowers[IndexOf(Uppers, ch)]
                     ELSE IF ch = "U+0130" THEN "i"
                     ELSE ch

RECURSIVE Lower(_)
Lower(s) == IF s = <<>> THEN <<>> ELSE LowerCh(Head(s)) \o Lower(Tail(s))

RECURSIVE Upper(_)
Upper(s) == IF s = <<>> THEN <<>> ELSE UpperCh(Head(s)) \o Upper(Tail(s))

RECURSIVE LStrip(_)
LStrip(s) == IF s # <<>> /\ IsSpace(Head(s)) THEN LStrip(Tail(s)) ELSE s

RECURSIVE RStrip(_)
RStrip(s) == IF s # <<>> /\ IsSpace(s[Len(s)])
             THEN RStrip(SubSeq(s, 1, Len(s) - 1)) ELSE s

\* str.strip()
Strip(s) == RStrip(LStrip(s))

\* str.startswith(p)
StartsWith(s, p) == Len(s) >= Len(p) /\ SubSeq(s, 1, Len(p)) = p

\* s[:n]
Truncate(s, n) == SubSeq(s, 1, IF Len(s) < n THEN Len(s) ELSE n)

\* ------------------------------------------------------------------------
\* Regular expressions, as sets of positions: position i stands before s[i]
\* ------------------------------------------------------------------------

\* a literal of the pattern under re.IGNORECASE, read from the positions S
LitCI(s, S, lit) ==
    {i + Len(lit) : i \in {i \in S : /\ i + Len(lit) - 1 <= Len(s)
                                     /\ \A k \in 1..Len(lit) :
                                          SimpleLowerCh(s[i + k - 1]) = lit[k]}}

\* a literal character, case-sensitive
Lit(s, S, ch) == {i + 1 : i \in {i \in S : i <= Len(s) /\ s[i] = ch}}

\* an optional item: X?
Opt(S, T) == S \cup T

\* [class]{min,} read from the positions S; class holds the characters of
\* s that are in the class
AtLeast(s, S, class, min) ==
    {j \in 1..(Len(s) + 1) :
        \E i \in S : /\ j - i >= min
                     /\ \A k \in i..(j - 1) : s[k] \in class}

\* $ : the end of the string, or just before a newline that ends it
AtEnd(s, S) == \/ (Len(s) + 1) \in S
               \/ Len(s) \in S /\ s[Len(s)] = "\n"

NotAtOrSpace(ch) == ch # "@" /\ ~IsSpace(ch)

PhoneClass(ch) == IsDigit(ch) \/ IsSpace(ch) \/ ch \in {"-", "(", ")"}

\* re.match(r'^https?://', c, re.IGNORECASE)
MatchHttp(c) ==
    LET p1 == LitCI(c, {1}, <<"h","t","t","p">>)
        p2 == Opt(p1, LitCI(c, p1, <<"s">>))
    IN  LitCI(c, p2, <<":","/","/">>) # {}

\* re.match(r'^www\.', c, re.IGNORECASE)
MatchWww(c) == LitCI(c, {1}, <<"w","w","w",".">>) # {}

\* re.match(r'^mailto:', c, re.IGNORECASE)
MatchMailto(c) == LitCI(c, {1}, <<"m","a","i","l","t","o",":">>) # {}

\* re.match(r'^[^@\s]+@[^@\s]+\.[^@\s]+$', c)
MatchEmail(c) ==
    LET class == {ch \in Range(c) : NotAtOrSpace(ch)}
        p1 == AtLeast(c, {1}, class, 1)
        p2 == Lit(c, p1, "@")
        p3 == AtLeast(c, p2, class, 1)
        p4 == Lit(c, p3, ".")
        p5 == AtLeast(c, p4, class, 1)
    IN  AtEnd(c, p5)

\* re.match(r'^tel:', c, re.IGNORECASE)
MatchTel(c) == LitCI(c, {1}, <<"t","e","l",":">>) # {}

\* the quantifier of the phone pattern, {7,}
PhoneMinLen == 7

\* re.match(r'^\+?[\d\s\-\(\)]{7,}$', c)
MatchPhone(c) ==
    LET p1 == Opt({1}, Lit(c, {1}, "+"))
        p2 == AtLeast(c, p1, {ch \in Range(c) : PhoneClass(ch)}, PhoneMinLen)
    IN  AtEnd(c, p2)

\* ------------------------------------------------------------------------
\* detect_type and format_content
\* ------------------------------------------------------------------------

Types == {"url", "text", "email", "phone", "wifi", "other"}

WIFI == <<"W","I","F","I",":">>
HTTPS == <<"h","t","t","p","s",":","/","/">>
MAILTO == <<"m","a","i","l","t","o",":">>
TEL == <<"t","e","l",":">>

\* detect_type with the e-mail shape tested before the URL prefixes
detect_type_email_first(content) ==
    LET c == Strip(content)
    IN  IF StartsWith(Upper(c), WIFI) THEN "wifi"
        ELSE IF MatchEmail(c) THEN "email"
        ELSE IF MatchHttp(c) THEN "url"
        ELSE IF MatchWww(c) THEN "url"
        ELSE IF MatchMailto(c) THEN "email"
        ELSE IF MatchTel(c) THEN "phone"
        ELSE IF MatchPhone(c) THEN "phone"
        ELSE "text"

detect_type(content) ==
    LET c == Strip(content)
    IN  IF StartsWith(Upper(c), WIFI) THEN "wifi"
        ELSE IF MatchHttp(c) THEN "url"
        ELSE IF MatchWww(c) THEN "url"
        ELSE IF MatchMailto(c) THEN "email"
        ELSE IF MatchEmail(c) THEN "email"
        ELSE IF MatchTel(c) THEN "phone"
        ELSE IF MatchPhone(c) THEN "phone"
        ELSE "text"

\* format_content with mailto: prepended whether or not it is there
format_content_always_mailto(content, qr_type) ==
    LET c == Strip(content)
    IN  IF qr_type = "url"
        THEN IF ~MatchHttp(c) THEN HTTPS \o c ELSE c
        ELSE IF qr_type = "email" THEN MAILTO \o c
        ELSE IF qr_type = "phone"
        THEN IF ~StartsWith(Lower(c), TEL) THEN TEL \o c ELSE c
        ELSE c

\* format_content with a final else in place of elif qr_type == "phone"
format_content_else_phone(content, qr_type) ==
    LET c == Strip(content)
    IN  IF qr_type = "url"
        THEN IF ~MatchHttp(c) THEN HTTPS \o c ELSE c
        ELSE IF qr_type = "email"
        THEN IF ~StartsWith(Lower(c), MAILTO) THEN MAILTO \o c ELSE c
        ELSE IF ~StartsWith(Lower(c), TEL) THEN TEL \o c ELSE c

\* format_content with the prefixes compared case-sensitively
format_content_case_sensitive(content, qr_type) ==
    LET c == Strip(content)
    IN  IF qr_type = "url"
        THEN IF ~(StartsWith(c, HTTPS) \/ StartsWith(c, <<"h","t","t","p",":","/","/">>))
             THEN HTTPS \o c ELSE c
        ELSE IF qr_type = "email"
        THEN IF ~StartsWith(c, MAILTO) THEN MAILTO \o c ELSE c
        ELSE IF qr_type = "phone"
        THEN IF ~StartsWith(c, TEL) THEN TEL \o c ELSE c
        ELSE c

format_content(content, qr_type) ==
    LET c == Strip(content)
    IN  IF qr_type = "url"
        THEN IF ~MatchHttp(c) THEN HTTPS \o c ELSE c
        ELSE IF qr_type = "email"
        THEN IF ~StartsWith(Lower(c), MAILTO) THEN MAILTO \o c ELSE c
        ELSE IF qr_type = "phone"
        THEN IF ~StartsWith(Lower(c), TEL) THEN TEL \o c ELSE c
        ELSE c

\* ------------------------------------------------------------------------
\* Filename helpers
\* ------------------------------------------------------------------------

\* the slice bound of make_filename, [:50]
SlugMax == 50

QR_CODE == <<"q","r","-","c","o","d","e">>

\* a character re.sub(r'[^\w\s\-]', '', label) keeps
SafeChar(ch) == IsWord(ch) \/ IsSpace(ch) \/ ch = "-"

\* re.sub(r'\s+', '-', s): every maximal run of whitespace becomes one hyphen
RECURSIVE CollapseSpaces(_)
CollapseSpaces(s) ==
    IF s = <<>> THEN <<>>
    ELSE IF IsSpace(Head(s)) THEN <<"-">> \o CollapseSpaces(LStrip(s))
    ELSE <<Head(s)>> \o CollapseSpaces(Tail(s))

\* the slug of make_filename: the value of safe at line 129
slug_of(label) ==
    LET safe1 == Strip(Truncate(SelectSeq(label, SafeChar), SlugMax))
        safe2 == Lower(CollapseSpaces(safe1))
    IN  IF safe2 = <<>> THEN QR_CODE ELSE safe2

\* today is date.today().isoformat()
make_filename(label, today) == slug_of(label) \o <<"_">> \o today

DigitSeq == <<"0","1","2","3","4","5","6","7","8","9">>

\* the decimal digits an f-string writes for a positive int
RECURSIVE Dec(_)
Dec(n) == IF n < 10 THEN <<DigitSeq[n + 1]>>
          ELSE Dec(n \div 10) \o <<DigitSeq[(n % 10) + 1]>>

PNG == <<".","p","n","g">>
PDF == <<".","p","d","f">>

\* os.path.join(archive_dir, name)
path_join(dir, name) == dir \o <<"/">> \o name

\* the while loop of resolve_paths; exists is the set of paths on disk
RECURSIVE resolve_loop(_, _, _, _, _, _)
resolve_loop(exists, archive_dir, base_name, png_path, pdf_path, counter) ==
    IF png_path \in exists \/ pdf_path \in exists
    THEN resolve_loop(exists, archive_dir, base_name,
             path_join(archive_dir, base_name \o <<"-">> \o Dec(counter) \o PNG),
             path_join(archive_dir, base_name \o <<"-">> \o Dec(counter) \o PDF),
             counter + 1)
    ELSE <<png_path, pdf_path>>

\* the loop of resolve_paths with "and" in place of "or"
RECURSIVE resolve_loop_and(_, _, _, _, _, _)
resolve_loop_and(exists, archive_dir, base_name, png_path, pdf_path, counter) ==
    IF png_path \in exists /\ pdf_path \in exists
    THEN resolve_loop_and(exists, archive_dir, base_name,
             path_join(archive_dir, base_name \o <<"-">> \o Dec(counter) \o PNG),
             path_join(archive_dir, base_name \o <<"-">> \o Dec(counter) \o PDF),
             counter + 1)
    ELSE <<png_path, pdf_path>>

\* the first value of counter in resolve_paths
FirstCounter == 2

resolve_paths_and(exists, archive_dir, base_name) ==
    resolve_loop_and(exists, archive_dir, base_name,
                     path_join(archive_dir, base_name \o PNG),
                     path_join(archive_dir, base_name \o PDF),
                     FirstCounter)

\* resolve_paths with the counter started one too low
resolve_paths_counter_low(exists, archive_dir, base_name) ==
    resolve_loop(exists, archive_dir, base_name,
                 path_join(archive_dir, base_name \o PNG),
                 path_join(archive_dir, base_name \o PDF),
                 FirstCounter - 1)

resolve_paths(exists, archive_dir, base_name) ==
    resolve_loop(exists, archive_dir, base_name,
                 path_join(archive_dir, base_name \o PNG),
                 path_join(archive_dir, base_name \o PDF),
                 FirstCounter)

\* ------------------------------------------------------------------------
\* The state of a run of main() and of the filesystem it acts on
\* ------------------------------------------------------------------------

\* Python's None where a str is expected (no str: "None" is no character)
NoneV == <<"None">>

ARCHIVE == <<"a","r","c","h","i","v","e">>

\* the steps of main() with an effect outside the process, in source order
StepOrder == <<"encode", "makedirs", "resolve", "png", "pdf">>

VARIABLES
    pc,               \* the position of the run in main() / create_pdf()
    args,             \* argparse's namespace: content, label, qr_type
    today,            \* date.today().isoformat() during the run
    qr_type,          \* main's local qr_type
    label,            \* main's local label
    encoded_content,  \* main's local encoded_content
    base_name,        \* main's local base_name
    png_path,         \* main's local png_path
    pdf_path,         \* main's local pdf_path
    tmp_path,         \* create_pdf's local tmp_path
    exc,              \* an exception is propagating out of create_pdf's try
    pdf_status,       \* create_pdf in this run: none, running, returned, raised
    exit_code,        \* the exit status of the run (-1 while there is none)
    archive_exists,   \* the archive directory exists
    fs,               \* the paths of the files in the archive directory
    tmpfs,            \* the paths of the files in the temporary directory
    fs0,              \* history: the archive before the first run
    written,          \* history: the archive paths this run has written
    trace,            \* history: the steps of StepOrder this run has completed
    fail_at,          \* history: the step of this run that raised ("" if none)
    runs,             \* history: the earlier runs that resolved their paths
    run_no            \* history: the number of runs started

locals == <<args, today, qr_type, label, encoded_content, base_name,
            png_path, pdf_path, tmp_path, exc, pdf_status>>
disk == <<archive_exists, fs, tmpfs>>
hist == <<fs0, written, trace, fail_at, runs, run_no>>
vars == <<pc, exit_code, locals, disk, hist>>

\* ------------------------------------------------------------------------
\* Bounds and the inputs drawn within them
\* ------------------------------------------------------------------------

\* runs of the tool, one after the other, on one archive
MaxRuns == 2
\* the highest candidate stem with files in the archive before the first run
MaxPre == 1
\* fragments a content string of the classifier's runs is made of
MaxFrags == 3
\* repeated characters a label of the filename's runs is made of
MaxPieces == 2

Dates == {<<"2","0","2","6","-","1","1","-","0","5">>}

\* the command lines of the runs of main()
ArgContents == {NoneV, <<>>, <<"h","i">>}
ArgLabels == {NoneV, <<"H","i">>}
ArgTypes == {"None", "url"}

\* the k-th path resolve_paths tries: the stem base_name, then base_name-k
candidate(dir, base, k, ext) ==
    path_join(dir,
              base \o (IF k = 1 THEN <<>> ELSE <<"-">> \o Dec(k)) \o ext)

\* files earlier runs of the same day may have left in the archive
PreFiles ==
    {candidate(ARCHIVE, make_filename(<<"h","i">>, d), k, ext) :
        d \in Dates, k \in 1..MaxPre, ext \in {PNG, PDF}}

RECURSIVE Concat(_)
Concat(ss) == IF ss = <<>> THEN <<>> ELSE Head(ss) \o Concat(Tail(ss))

Tuples(S, n) == UNION {[1..k -> S] : k \in 0..n}

ContentFrags ==
    { <<"W","I","F","I",":">>, <<"w","i","F","i",":">>,
      <<"h","t","t","p","s",":","/","/">>, <<"H","T","T","P",":","/","/">>,
      <<"W","w","w",".">>, <<"M","a","i","l","T","o",":">>,
      <<"T","e","l",":">>, <<"a","@","b",".","c">>, <<"@">>, <<" ">>,
      <<"\t">>, <<"+">>, <<"5","5","5","-","1","2","3">>, <<"(","4",")">>,
      <<"x">> }

\* the content strings of the classifier's runs
Contents == {Concat(t) : t \in Tuples(ContentFrags, MaxFrags)}

LabelChars == {"a", "B", "7", "_", "-", " ", "\t", "!", "U+0130"}
LabelReps == {1, 2, 49, 50}

Rep(ch, n) == [i \in 1..n |-> ch]

\* the labels of the filename's runs: runs of one repeated character
Labels ==
    {Concat(t) : t \in Tuples({Rep(ch, n) : ch \in LabelChars, n \in LabelReps},
                              MaxPieces)}

\* ------------------------------------------------------------------------
\* main(), step by step
\* ------------------------------------------------------------------------

InitLocals ==
    /\ qr_type = "None" /\ label = NoneV /\ encoded_content = NoneV
    /\ base_name = NoneV /\ png_path = NoneV /\ pdf_path = NoneV
    /\ tmp_path = NoneV /\ exc = FALSE /\ pdf_status = "none"

InitHist ==
    /\ written = {} /\ trace = <<>> /\ fail_at = "" /\ runs = <<>>

\* before the first run: any archive earlier days' runs may have left
Init ==
    /\ pc = "idle" /\ exit_code = -1
    /\ args = [content |-> NoneV, label |-> NoneV, qr_type |-> "None"]
    /\ today \in Dates
    /\ InitLocals /\ InitHist /\ run_no = 0
    /\ archive_exists \in BOOLEAN
    /\ fs \in (IF archive_exists THEN SUBSET PreFiles ELSE {{}})
    /\ tmpfs = {}
    /\ fs0 = fs

\* an uncaught exception ends the process with status 1
Raise(step) ==
    /\ pc' = "exit" /\ exit_code' = 1 /\ fail_at' = step

\* the operator starts the tool (again) with some command line
Invoke ==
    /\ pc \in {"idle", "exit"}
    /\ run_no < MaxRuns
    /\ run_no' = run_no + 1
    /\ runs' = IF png_path # NoneV
               THEN Append(runs, [base_name |-> base_name, png_path |-> png_path,
                                  pdf_path |-> pdf_path, written |-> written])
               ELSE runs
    /\ \E c \in ArgContents, l \in ArgLabels, t \in ArgTypes :
          args' = [content |-> c, label |-> l, qr_type |-> t]
    /\ today' \in Dates
    /\ qr_type' = "None" /\ label' = NoneV /\ encoded_content' = NoneV
    /\ base_name' = NoneV /\ png_path' = NoneV /\ pdf_path' = NoneV
    /\ tmp_path' = NoneV /\ exc' = FALSE /\ pdf_status' = "none"
    /\ written' = {} /\ trace' = <<>> /\ fail_at' = ""
    /\ pc' = "deps" /\ exit_code' = -1
    /\ UNCHANGED <<disk, fs0>>

\* ensure_dependencies(): the imports succeed, or pip installs, or pip fails
EnsureDependencies ==
    /\ pc = "deps"
    /\ \/ pc' = "parse_args" /\ UNCHANGED <<exit_code, fail_at>>
       \/ Raise("deps")
    /\ UNCHANGED <<locals, disk, fs0, written, trace, runs, run_no>>

\* parse_args(): --content is required; argparse exits with status 2
ParseArgs ==
    /\ pc = "parse_args"
    /\ IF args.content = NoneV
       THEN pc' = "exit" /\ exit_code' = 2 /\ fail_at' = "parse_args"
       ELSE pc' = "type" /\ UNCHANGED <<exit_code, fail_at>>
    /\ UNCHANGED <<locals, disk, fs0, written, trace, runs, run_no>>

\* qr_type = args.qr_type or detect_type(...); label = args.label or args.content
ResolveType ==
    /\ pc = "type"
    /\ qr_type' = IF args.qr_type # "None" THEN args.qr_type
                  ELSE detect_type(args.content)
    /\ label' = IF args.label \notin {NoneV, <<>>} THEN args.label
                ELSE args.content
    /\ pc' = "format"
    /\ UNCHANGED <<args, today, encoded_content, base_name, png_path, pdf_path,
                   tmp_path, exc, pdf_status, exit_code, disk, hist>>

\* encoded_content = format_content(args.content, qr_type)
FormatContent ==
    /\ pc = "format"
    /\ encoded_content' = format_content(args.content, qr_type)
    /\ pc' = "encode"
    /\ UNCHANGED <<args, today, qr_type, label, base_name, png_path, pdf_path,
                   tmp_path, exc, pdf_status, exit_code, disk, hist>>

\* Encode with the encoder's exception caught and the run going on
Encode_error_swallowed ==
    /\ pc = "encode"
    /\ \/ pc' = "makedirs" /\ trace' = Append(trace, "encode")
          /\ UNCHANGED <<exit_code, fail_at>>
       \/ pc' = "makedirs" /\ fail_at' = "encode"
          /\ UNCHANGED <<exit_code, trace>>
    /\ UNCHANGED <<locals, disk, fs0, written, runs, run_no>>

\* generate_qr_image(encoded_content): the library returns an image or raises
Encode ==
    /\ pc = "encode"
    /\ \/ pc' = "makedirs" /\ trace' = Append(trace, "encode")
          /\ UNCHANGED <<exit_code, fail_at>>
       \/ Raise("encode") /\ UNCHANGED trace
    /\ UNCHANGED <<locals, disk, fs0, written, runs, run_no>>

\* os.makedirs(archive_dir, exist_ok=True)
MakeDirs ==
    /\ pc = "makedirs"
    /\ \/ pc' = "filename" /\ archive_exists' = TRUE
          /\ trace' = Append(trace, "makedirs")
          /\ UNCHANGED <<exit_code, fail_at>>
       \/ ~archive_exists /\ Raise("makedirs")
          /\ UNCHANGED <<archive_exists, trace>>
    /\ UNCHANGED <<locals, fs, tmpfs, fs0, written, runs, run_no>>

\* base_name = make_filename(label)
MakeFilename ==
    /\ pc = "filename"
    /\ base_name' = make_filename(label, today)
    /\ pc' = "resolve"
    /\ UNCHANGED <<args, today, qr_type, label, encoded_content, png_path,
                   pdf_path, tmp_path, exc, pdf_status, exit_code, disk, hist>>

\* png_path, pdf_path = resolve_paths(archive_dir, base_name)
ResolvePaths ==
    /\ pc = "resolve"
    /\ LET r == resolve_paths(fs, ARCHIVE, base_name)
       IN  png_path' = r[1] /\ pdf_path' = r[2]
    /\ trace' = Append(trace, "resolve")
    /\ pc' = "png"
    /\ UNCHANGED <<args, today, qr_type, label, encoded_content, base_name,
                   tmp_path, exc, pdf_status, exit_code, disk, fs0, written,
                   fail_at, runs, run_no>>

\* qr_image.save(png_path): writes the file, or raises (with or without
\* leaving a file behind)
SavePng ==
    /\ pc = "png"
    /\ \/ /\ fs' = fs \cup {png_path} /\ written' = written \cup {png_path}
          /\ trace' = Append(trace, "png")
          /\ pc' = "pdf_header" /\ pdf_status' = "running"
          /\ UNCHANGED <<exit_code, fail_at>>
       \/ /\ Raise("png")
          /\ \/ UNCHANGED <<fs, written>>
             \/ fs' = fs \cup {png_path} /\ written' = written \cup {png_path}
          /\ UNCHANGED <<trace, pdf_status>>
    /\ UNCHANGED <<args, today, qr_type, label, encoded_content, base_name,
                   png_path, pdf_path, tmp_path, exc, archive_exists, tmpfs,
                   fs0, runs, run_no>>

\* the name tempfile.NamedTemporaryFile(suffix=".png") picks: one not in use
fresh_tmp ==
    LET name(n) == <<"t","m","p">> \o Dec(n) \o PNG
        n == CHOOSE n \in 1..(Cardinality(tmpfs) + 1) :
                 /\ name(n) \notin tmpfs
                 /\ \A m \in 1..(n - 1) : name(m) \in tmpfs
    IN  name(n)

\* create_pdf, lines 153-168: the page, the title and the type badge
PdfHeader ==
    /\ pc = "pdf_header"
    /\ \/ pc' = "pdf_tmp" /\ UNCHANGED <<exit_code, fail_at, pdf_status>>
       \/ Raise("pdf_header") /\ pdf_status' = "raised"
    /\ UNCHANGED <<args, today, qr_type, label, encoded_content, base_name,
                   png_path, pdf_path, tmp_path, exc, disk, fs0, written,
                   trace, runs, run_no>>

\* lines 171-174: tmp_path = None, then the temporary file is created and
\* tmp_path names it; if it cannot be created tmp_path stays None
PdfTmpCreate ==
    /\ pc = "pdf_tmp"
    /\ \/ /\ tmp_path' = fresh_tmp /\ tmpfs' = tmpfs \cup {fresh_tmp}
          /\ pc' = "pdf_save" /\ UNCHANGED <<exc, fail_at>>
       \/ /\ exc' = TRUE /\ fail_at' = "pdf_tmp" /\ pc' = "pdf_finally"
          /\ UNCHANGED <<tmp_path, tmpfs>>
    /\ UNCHANGED <<args, today, qr_type, label, encoded_content, base_name,
                   png_path, pdf_path, pdf_status, exit_code, archive_exists,
                   fs, fs0, written, trace, runs, run_no>>

\* line 175: qr_image.save(tmp_path)
PdfTmpSave ==
    /\ pc = "pdf_save"
    /\ \/ pc' = "pdf_image" /\ UNCHANGED <<exc, fail_at>>
       \/ exc' = TRUE /\ fail_at' = "pdf_save" /\ pc' = "pdf_finally"
    /\ UNCHANGED <<args, today, qr_type, label, encoded_content, base_name,
                   png_path, pdf_path, tmp_path, pdf_status, exit_code, disk,
                   fs0, written, trace, runs, run_no>>

\* lines 178-182: pdf.image(tmp_path, ...) and pdf.ln
PdfImage ==
    /\ pc = "pdf_image"
    /\ \/ pc' = "pdf_finally" /\ UNCHANGED <<exc, fail_at>>
       \/ exc' = TRUE /\ fail_at' = "pdf_image" /\ pc' = "pdf_finally"
    /\ UNCHANGED <<args, today, qr_type, label, encoded_content, base_name,
                   png_path, pdf_path, tmp_path, pdf_status, exit_code, disk,
                   fs0, written, trace, runs, run_no>>

\* PdfFinally with the unlink after the try block and no finally clause
PdfFinally_no_finally ==
    /\ pc = "pdf_finally"
    /\ tmpfs' = IF ~exc /\ tmp_path # NoneV /\ tmp_path \in tmpfs
                THEN tmpfs \ {tmp_path} ELSE tmpfs
    /\ IF exc
       THEN pc' = "exit" /\ exit_code' = 1 /\ pdf_status' = "raised"
       ELSE pc' = "pdf_tail" /\ UNCHANGED <<exit_code, pdf_status>>
    /\ UNCHANGED <<args, today, qr_type, label, encoded_content, base_name,
                   png_path, pdf_path, tmp_path, exc, archive_exists, fs,
                   hist>>

\* lines 183-185: the finally clause, then the exception (if any) goes on
PdfFinally ==
    /\ pc = "pdf_finally"
    /\ tmpfs' = IF tmp_path # NoneV /\ tmp_path \in tmpfs
                THEN tmpfs \ {tmp_path} ELSE tmpfs
    /\ IF exc
       THEN pc' = "exit" /\ exit_code' = 1 /\ pdf_status' = "raised"
       ELSE pc' = "pdf_tail" /\ UNCHANGED <<exit_code, pdf_status>>
    /\ UNCHANGED <<args, today, qr_type, label, encoded_content, base_name,
                   png_path, pdf_path, tmp_path, exc, archive_exists, fs,
                   hist>>

\* lines 187-195: the caption and the date line
PdfTail ==
    /\ pc = "pdf_tail"
    /\ \/ pc' = "pdf_output" /\ UNCHANGED <<exit_code, fail_at, pdf_status>>
       \/ Raise("pdf_tail") /\ pdf_status' = "raised"
    /\ UNCHANGED <<args, today, qr_type, label, encoded_content, base_name,
                   png_path, pdf_path, tmp_path, exc, disk, fs0, written,
                   trace, runs, run_no>>

\* line 197: pdf.output(output_path): writes the file, or raises (with or
\* without leaving a file behind)
PdfOutput ==
    /\ pc = "pdf_output"
    /\ \/ /\ fs' = fs \cup {pdf_path} /\ written' = written \cup {pdf_path}
          /\ trace' = Append(trace, "pdf")
          /\ pc' = "summary" /\ pdf_status' = "returned"
          /\ UNCHANGED <<exit_code, fail_at>>
       \/ /\ Raise("pdf_output") /\ pdf_status' = "raised"
          /\ \/ UNCHANGED <<fs, written>>
             \/ fs' = fs \cup {pdf_path} /\ written' = written \cup {pdf_path}
          /\ UNCHANGED trace
    /\ UNCHANGED <<args, today, qr_type, label, encoded_content, base_name,
                   png_path, pdf_path, tmp_path, exc, archive_exists, tmpfs,
                   fs0, runs, run_no>>

\* lines 258-267: the summary is printed and main() returns
Summary ==
    /\ pc = "summary"
    /\ pc' = "exit" /\ exit_code' = 0
    /\ UNCHANGED <<locals, disk, hist>>

Next ==
    \/ Invoke \/ EnsureDependencies \/ ParseArgs \/ ResolveType
    \/ FormatContent \/ Encode \/ MakeDirs \/ MakeFilename \/ ResolvePaths
    \/ SavePng \/ PdfHeader \/ PdfTmpCreate \/ PdfTmpSave \/ PdfImage
    \/ PdfFinally \/ PdfTail \/ PdfOutput \/ Summary

\* runs of main(), one after the other
Spec == Init /\ [][Next]_vars

\* ------------------------------------------------------------------------
\* The classifier and the normalizer on every content of the bounded set
\* ------------------------------------------------------------------------

InitText ==
    /\ pc = "type" /\ exit_code = -1
    /\ args \in [content : Contents, label : {NoneV},
                 qr_type : Types \cup {"None"}]
    /\ today \in Dates
    /\ InitLocals /\ InitHist /\ run_no = 1
    /\ archive_exists = FALSE /\ fs = {} /\ tmpfs = {} /\ fs0 = {}

NextText == ResolveType \/ FormatContent

SpecText == InitText /\ [][NextText]_vars

\* ------------------------------------------------------------------------
\* make_filename on every label of the bounded set
\* ------------------------------------------------------------------------

InitSlug ==
    /\ pc = "filename" /\ exit_code = -1
    /\ args = [content |-> <<"x">>, label |-> NoneV, qr_type |-> "text"]
    /\ today \in Dates
    /\ qr_type = "text" /\ label \in Labels /\ encoded_content = <<"x">>
    /\ base_name = NoneV /\ png_path = NoneV /\ pdf_path = NoneV
    /\ tmp_path = NoneV /\ exc = FALSE /\ pdf_status = "none"
    /\ InitHist /\ run_no = 1
    /\ archive_exists = TRUE /\ fs = {} /\ tmpfs = {} /\ fs0 = {}

NextSlug == MakeFilename

SpecSlug == InitSlug /\ [][NextSlug]_vars

\* ------------------------------------------------------------------------
\* The shapes the specification names, stated on a string as given
\* ------------------------------------------------------------------------

\* s starts with the (lower-case) prefix p, each letter in either case
AnyCasePrefix(s, p) ==
    /\ Len(s) >= Len(p)
    /\ \A k \in 1..Len(p) : s[k] = p[k] \/ <<s[k]>> = UpperCh(p[k])

ShapeWifi(s) == AnyCasePrefix(s, <<"w","i","f","i",":">>)

ShapeHttp(s) == \/ AnyCasePrefix(s, <<"h","t","t","p",":","/","/">>)
                \/ AnyCasePrefix(s, <<"h","t","t","p","s",":","/","/">>)

ShapeUrl(s) == ShapeHttp(s) \/ AnyCasePrefix(s, <<"w","w","w",".">>)

ShapeMailto(s) == AnyCasePrefix(s, <<"m","a","i","l","t","o",":">>)

ShapeTel(s) == AnyCasePrefix(s, <<"t","e","l",":">>)

\* local@domain.tld: one @, no whitespace, something before the @, and a
\* dot after it with something on both sides
ShapeEmail(s) ==
    LET ats == {i \in 1..Len(s) : s[i] = "@"}
    IN  /\ Cardinality(ats) = 1
        /\ \A i \in 1..Len(s) : ~IsSpace(s[i])
        /\ \E a \in ats : /\ a >= 2
                          /\ \E d \in (a + 2)..(Len(s) - 1) : s[d] = "."

\* optional +, then 7 or more digits, whitespace, hyphens, parentheses
ShapePhone(s) ==
    LET b == IF s # <<>> /\ Head(s) = "+" THEN Tail(s) ELSE s
    IN  /\ Len(b) >= 7
        /\ \A i \in 1..Len(b) :
              b[i] \in Digits \cup {" ", "\t", "\n", "-", "(", ")"}

\* the type of the first check that matches, in the specification's order
FirstMatch(s) ==
    IF ShapeWifi(s) THEN "wifi"
    ELSE IF ShapeUrl(s) THEN "url"
    ELSE IF ShapeMailto(s) THEN "email"
    ELSE IF ShapeEmail(s) THEN "email"
    ELSE IF ShapeTel(s) THEN "phone"
    ELSE IF ShapePhone(s) THEN "phone"
    ELSE "text"

\* the type was resolved, and by detect_type (no --type was given)
Detected == pc \in {"format", "encode"} /\ args.qr_type = "None"

\* format_content has returned
Formatted == pc = "encode"

\* s carries the prefix of type t
HasTypePrefix(s, t) == \/ t = "url" /\ ShapeHttp(s)
                       \/ t = "email" /\ ShapeMailto(s)
                       \/ t = "phone" /\ ShapeTel(s)

\* e is s with exactly one prefix p: s itself if it carries p, else p \o s
OnePrefix(e, s, p) ==
    /\ AnyCasePrefix(e, p)
    /\ IF AnyCasePrefix(s, p) THEN e = s ELSE e = p \o s

\* ------------------------------------------------------------------------
\* Claims about detect_type and format_content, under SpecText
\* ------------------------------------------------------------------------

\* C1 as stated: detect_type returns the type of the first check, in the
\* fixed order, that matches the content string as given.
C1_FirstMatchOnContent ==
    Detected => qr_type = FirstMatch(args.content)

\* C1 amended: detect_type returns the type of the first check, in the fixed
\* order, that matches the content with its leading and trailing whitespace
\* removed; it is total and never returns "other".
C1_FirstMatchOnStripped ==
    Detected => /\ qr_type = FirstMatch(Strip(args.content))
                /\ qr_type \in Types \ {"other"}

\* C1: a content with leading whitespace that is www.-prefixed and also of
\* the e-mail shape was classified, and the earlier check (url) won.
C1_Witness ==
    /\ Detected
    /\ args.content # Strip(args.content)
    /\ ShapeUrl(Strip(args.content)) /\ ShapeEmail(Strip(args.content))
    /\ qr_type = "url"

\* C2 as stated: every content of the single-@ e-mail shape is classified
\* email and normalized to itself with exactly one mailto: prefix.
C2_EmailShapeIsEmail ==
    (Formatted /\ args.qr_type = "None" /\ ShapeEmail(args.content))
        => /\ qr_type = "email"
           /\ OnePrefix(encoded_content, args.content, MAILTO)

\* C2 amended: every content of the single-@ e-mail shape that does not
\* start with WIFI:, http://, https:// or www. (in any case) is classified
\* email and normalized to itself with exactly one mailto: prefix.
C2_EmailShapeIsEmailUnlessEarlier ==
    (/\ Formatted /\ args.qr_type = "None" /\ ShapeEmail(args.content)
     /\ ~ShapeWifi(args.content) /\ ~ShapeUrl(args.content))
        => /\ qr_type = "email"
           /\ OnePrefix(encoded_content, args.content, MAILTO)

\* C2: an e-mail-shaped content that already carries mailto: in another
\* case was classified and normalized, and got no second prefix.
C2_Witness ==
    /\ Formatted /\ args.qr_type = "None" /\ ShapeEmail(args.content)
    /\ ShapeMailto(args.content) /\ ~StartsWith(args.content, MAILTO)
    /\ qr_type = "email" /\ encoded_content = args.content

\* C3 as stated: a content starting with WIFI: (any case) is classified
\* wifi and normalized to itself; for the types wifi, text and other
\* format_content returns its input unchanged.
C3_WifiTextOtherUnchanged ==
    Formatted =>
        /\ (args.qr_type = "None" /\ ShapeWifi(args.content))
              => (qr_type = "wifi" /\ encoded_content = args.content)
        /\ qr_type \in {"wifi", "text", "other"}
              => encoded_content = args.content

\* C3 amended: a content starting with WIFI: (any case) is classified wifi;
\* for the types wifi, text and other format_content returns its input with
\* leading and trailing whitespace removed, and nothing else changed.
C3_WifiTextOtherStripped ==
    Formatted =>
        /\ (args.qr_type = "None" /\ ShapeWifi(args.content))
              => (qr_type = "wifi" /\ encoded_content = Strip(args.content))
        /\ qr_type \in {"wifi", "text", "other"}
              => encoded_content = Strip(args.content)

\* C3: a WIFI: content in mixed case with trailing whitespace was
\* classified wifi and normalized.
C3_Witness ==
    /\ Formatted /\ args.qr_type = "None"
    /\ ShapeWifi(args.content) /\ ~StartsWith(args.content, WIFI)
    /\ args.content # Strip(args.content)
    /\ qr_type = "wifi"

\* C9: format_content is idempotent for every content and type, and a
\* content that carries its type's prefix (in any case) gets no prefix.
C9_FormatIdempotent ==
    Formatted =>
        /\ format_content(encoded_content, qr_type) = encoded_content
        /\ HasTypePrefix(args.content, qr_type)
              => encoded_content = Strip(args.content)

\* C9: a content with surrounding whitespace and an upper-case http://
\* prefix was normalized as a url.
C9_Witness ==
    /\ Formatted /\ qr_type = "url"
    /\ ShapeHttp(args.content)
    /\ args.content # Lower(args.content)
    /\ args.content # Strip(args.content)
    /\ encoded_content = Strip(args.content)

\* ------------------------------------------------------------------------
\* The claim about make_filename, under SpecSlug
\* ------------------------------------------------------------------------

LowerWordChars == Range(Lowers) \cup Digits \cup {"_"}

\* C8: make_filename returns slug, "_", date; the slug holds only
\* lower-case word characters and hyphens, is 1 to 50 characters long, and
\* is qr-code when stripping, truncating and trimming leave nothing.
C8_SlugShape ==
    pc = "resolve" =>
        LET n == Len(base_name) - Len(today) - 1
            slug == SubSeq(base_name, 1, n)
        IN  /\ n >= 1 /\ n <= SlugMax
            /\ base_name = slug \o <<"_">> \o today
            /\ \A i \in 1..n : slug[i] \in LowerWordChars \cup {"-"}
            /\ Strip(Truncate(SelectSeq(label, SafeChar), SlugMax)) = <<>>
                  => slug = QR_CODE

\* ------------------------------------------------------------------------
\* Claims about runs of main(), under Spec
\* ------------------------------------------------------------------------

\* C4: a run whose content is missing or empty writes nothing to the
\* archive and ends with a non-zero exit status.
C4_EmptyContentRejected ==
    args.content \in {NoneV, <<>>} =>
        /\ written = {}
        /\ pc = "exit" => exit_code # 0

\* C5: the paths resolve_paths returns are those of the first stem in
\* base_name, base_name-2, base_name-3, ... with neither file on disk: both
\* are absent, they share the stem, and every earlier stem had a file.
C5_FirstFreeStem ==
    pc = "png" =>
        \E k \in 1..(Cardinality(fs) + 1) :
            /\ png_path = candidate(ARCHIVE, base_name, k, PNG)
            /\ pdf_path = candidate(ARCHIVE, base_name, k, PDF)
            /\ png_path \notin fs /\ pdf_path \notin fs
            /\ \A j \in 1..(k - 1) :
                  \/ candidate(ARCHIVE, base_name, j, PNG) \in fs
                  \/ candidate(ARCHIVE, base_name, j, PDF) \in fs

\* C5: the third stem was returned past a stem of which only the PNG exists.
C5_Witness ==
    /\ pc = "png"
    /\ png_path = candidate(ARCHIVE, base_name, 3, PNG)
    /\ candidate(ARCHIVE, base_name, 1, PNG) \in fs
    /\ candidate(ARCHIVE, base_name, 1, PDF) \notin fs

\* the archive F holds no file of base name b
NoFileFor(b, F) == \A p \in F : ~StartsWith(p, path_join(ARCHIVE, b))

\* the earlier runs all had base name b and created both files they got
AllCreated(b) ==
    \A i \in 1..Len(runs) :
        /\ runs[i].base_name = b
        /\ runs[i].written = {runs[i].png_path, runs[i].pdf_path}

\* C6: from an archive with no file for a base name, the n-th of the runs
\* with that base name, each creating its two files, gets the n-th stem of
\* base_name, base_name-2, ...; and no run gets a path an earlier run wrote.
C6_SequentialStems ==
    png_path # NoneV =>
        /\ (NoFileFor(base_name, fs0) /\ AllCreated(base_name))
              => /\ png_path = candidate(ARCHIVE, base_name, Len(runs) + 1, PNG)
                 /\ pdf_path = candidate(ARCHIVE, base_name, Len(runs) + 1, PDF)
        /\ \A i \in 1..Len(runs) :
              png_path \notin runs[i].written /\ pdf_path \notin runs[i].written

\* C6: the second run on a fresh base name got the stem with -2 appended.
C6_Witness ==
    /\ pc = "png" /\ Len(runs) = 1
    /\ NoFileFor(base_name, fs0) /\ AllCreated(base_name)
    /\ png_path = path_join(ARCHIVE, base_name \o <<"-", "2">> \o PNG)

\* C7: once create_pdf has returned or raised, and already in the steps
\* after its finally clause, the temporary file it created is not on disk.
C7_TempFileGone ==
    (pdf_status \in {"returned", "raised"} \/ pc \in {"pdf_tail", "pdf_output"})
        => tmp_path \notin tmpfs

\* C7: create_pdf raised while placing the image, after creating the file.
C7_Witness ==
    /\ pdf_status = "raised" /\ fail_at = "pdf_image"
    /\ tmp_path # NoneV

\* C10: the steps of a run happen in the order encode, makedirs, resolve,
\* PNG, PDF, each at most once; a failed step ends the run; nothing is
\* written if the encoder fails; the PDF is written only after the PNG of
\* the same run; a failed PDF step leaves the PNG in place.
C10_StepOrder ==
    /\ \E n \in 0..Len(StepOrder) : trace = SubSeq(StepOrder, 1, n)
    /\ fail_at # "" => pc \in {"exit", "pdf_finally"}
    /\ (fail_at # "" /\ pc = "exit") => exit_code # 0
    /\ fail_at = "encode" => (written = {} /\ trace = <<>>)
    /\ pdf_path \in written => png_path \in written
    /\ pdf_status = "raised" => (png_path \in written /\ png_path \in fs)

\* C10: the PDF could not be written out, and the run ended with its PNG.
C10_Witness ==
    /\ pc = "exit" /\ fail_at = "pdf_output" /\ pdf_status = "raised"
    /\ png_path \in fs /\ pdf_path \notin fs

====
